---- MODULE Spec2Model ----
(***************************************************************************)
(* Model of app.py: the upload service of the IIST face-data intake.       *)
(*                                                                         *)
(* State: the data folder (one sub-folder of image files per sanitized     *)
(* enrollment), the students table of attendance.db, the preview folder,   *)
(* and the upload handlers in flight on the single asyncio event loop.     *)
(* upload_image is an `async def` route: it runs on the event loop, and    *)
(* its only `await` is file.read() (line 316).  A handler therefore runs   *)
(* from its start to that await, and from the resumption after it to its   *)
(* response, without any other handler running in between.                 *)
(*                                                                         *)
(* Strings that the code transforms (the raw enrollment, the file suffix)  *)
(* are sequences of one-character strings, so that upper(), lower() and    *)
(* the regular-expression filter are computed character by character.      *)
(***************************************************************************)
EXTENDS Integers, Sequences, FiniteSets, TLC

VARIABLES dirs, files, students, previews,
          pc, req, image_count,
          last, nresp, hist,
          san_in, san_out, san_again, san_step

vars == <<dirs, files, students, previews, pc, req, image_count,
          last, nresp, hist, san_in, san_out, san_again, san_step>>

store == <<dirs, files, students, previews>>

san == <<san_in, san_out, san_again, san_step>>

(***************************************************************************)
(* Bounds of the model.                                                    *)
(***************************************************************************)
\* Upload requests received in one run.
MaxRequests == 3
\* Length of the raw strings given to the sanitizer in SanSpec.
MaxLen == 3

(***************************************************************************)
(* Configuration and constants of app.py.                                  *)
(***************************************************************************)
MAX_FILE_BYTES == 5 * 1024 * 1024

\* The literal 10 of `if image_count >= 10`.
MAX_IMAGES == 10

ALLOWED_EXTS == { <<".", "p", "n", "g">>, <<".", "j", "p", "g">>,
                  <<".", "j", "p", "e", "g">> }

Lowers == <<"a","b","c","d","e","f","g","h","i","j","k","l","m",
            "n","o","p","q","r","s","t","u","v","w","x","y","z">>
Uppers == <<"A","B","C","D","E","F","G","H","I","J","K","L","M",
            "N","O","P","Q","R","S","T","U","V","W","X","Y","Z">>
Digits == {"0","1","2","3","4","5","6","7","8","9"}

Range(s) == { s[i] : i \in DOMAIN s }

\* str.upper() and str.lower(), on one character.
UpperChar(c) ==
  IF \E i \in DOMAIN Lowers : Lowers[i] = c
    THEN Uppers[CHOOSE i \in DOMAIN Lowers : Lowers[i] = c]
    ELSE c

LowerChar(c) ==
  IF \E i \in DOMAIN Uppers : Uppers[i] = c
    THEN Lowers[CHOOSE i \in DOMAIN Uppers : Uppers[i] = c]
    ELSE c

Upper(s) == [i \in DOMAIN s |-> UpperChar(s[i])]
Lower(s) == [i \in DOMAIN s |-> LowerChar(s[i])]

\* A mutant of KeptChar: the character class also lets the dot through.
KeptCharWithDot(c) == c \in Range(Uppers) \cup Digits \cup {"_", "-", "."}

\* The complement of the class [^A-Z0-9_-]: the characters re.sub keeps.
KeptChar(c) == c \in Range(Uppers) \cup Digits \cup {"_", "-"}

\* sanitize_enrollment: "" for an empty input, else the upper-cased input
\* with every character outside [A-Z0-9_-] removed.
sanitize_enrollment(raw) ==
  IF raw = <<>> THEN <<>> ELSE SelectSeq(Upper(raw), KeptChar)

(***************************************************************************)
(* The inputs of the model.                                                *)
(***************************************************************************)
Handlers == {1, 2}

\* Raw enrollment form values: empty, one that sanitizes to empty, and two
\* that sanitize to "AB1" and to "X".
RawEnrollments == { <<>>, <<"*", " ">>, <<"a", "b", " ", "1", "!">>, <<"x">> }

\* The suffix of the uploaded file's name (Path(file.filename).suffix).
Suffixes == { <<".", "J", "P", "G">>, <<".", "p", "n", "g">>,
              <<".", "g", "i", "f">> }

\* The upload body: whether file.read() succeeds, and the bytes it holds.
Bodies == { [readable |-> FALSE, size |-> MAX_FILE_BYTES + 1],
            [readable |-> TRUE, size |-> MAX_FILE_BYTES],
            [readable |-> TRUE, size |-> MAX_FILE_BYTES + 1] }

Enrollments == { sanitize_enrollment(r) : r \in RawEnrollments } \ { <<>> }

E1 == <<"A", "B", "1">>

NoBody == [readable |-> FALSE, size |-> 0]
NoReq == [raw |-> <<>>, fname |-> <<>>, body |-> NoBody]
NoName == [stem |-> <<>>, ext |-> <<>>]
NoResponse == [raw |-> <<>>, fname |-> <<>>, body |-> NoBody, status |-> 0, detail |-> "",
               filename |-> NoName, url |-> FALSE, enrollment |-> <<>>]

(***************************************************************************)
(* Helpers of the upload handler.                                          *)
(***************************************************************************)
\* A mutant of count_images_in_folder: the suffix is compared with ".jpg" only.
count_only_jpg(folder) ==
  Cardinality({ f \in folder : f.name.ext = <<".", "j", "p", "g">> })

\* count_images_in_folder: the files of the folder with an allowed suffix.
count_images_in_folder(folder) ==
  Cardinality({ f \in folder : Lower(f.name.ext) \in ALLOWED_EXTS })

\* A mutant of LimitReached: > in place of >=.
LimitReachedStrict(n) == n > MAX_IMAGES

\* `if image_count >= 10`.
LimitReached(n) == n >= MAX_IMAGES

\* `if len(contents) > MAX_FILE_BYTES`.
TooLarge(n) == n > MAX_FILE_BYTES

\* A mutant of SeqName: the count itself, not the count plus one.
SeqNameZeroBased(n, ext) == [stem |-> <<n \div 10, n % 10>>, ext |-> ext]

\* f"{image_count+1:02d}{ext}": the two decimal digits of count + 1, then ext.
SeqName(n, ext) == [stem |-> <<(n + 1) \div 10, (n + 1) % 10>>, ext |-> ext]

\* open(filepath, "wb") followed by f.write: the file of that name is
\* created or replaced.
WriteFile(folder, name, data) ==
  { f \in folder : f.name # name } \cup
    { [name |-> name, data |-> data, stored |-> FALSE] }

\* filepath.unlink(missing_ok=True).
Unlink(folder, name) == { f \in folder : f.name # name }

\* A mutant of InsertOrIgnore: INSERT OR REPLACE, which resets the row.
InsertOrReplace(t, e) == [x \in DOMAIN t \cup {e} |-> IF x = e THEN 0 ELSE t[x]]

\* INSERT OR IGNORE INTO students (enrollment, image_count) VALUES (?, 0).
InsertOrIgnore(t, e) == [x \in DOMAIN t \cup {e} |-> IF x \in DOMAIN t THEN t[x] ELSE 0]

\* UPDATE students SET image_count = image_count + 1 WHERE enrollment = ?.
Increment(t, e) == [x \in DOMAIN t |-> IF x = e THEN t[x] + 1 ELSE t[x]]

\* A mutant of Rollback: the failed transaction's rows stay.
RollbackKeeps(committed, tx) == tx

\* conn.rollback(): the table as last committed.
Rollback(committed, tx) == committed

\* list_students: every row of the table.
list_students == { [enrollment |-> e, image_count |-> students[e]] : e \in DOMAIN students }

\* enrollment_clean and ext, the locals computed from the request.
EnrollmentClean(r) == sanitize_enrollment(r.raw)
Ext(r) == Lower(r.fname)

NoReject == [status |-> 0, detail |-> ""]

\* A mutant of EarlyCheck: the extension is validated before the enrollment.
EarlyCheckExtFirst(raw, fname) ==
  IF Lower(fname) \notin ALLOWED_EXTS
    THEN [status |-> 400, detail |-> "Only PNG/JPG/JPEG allowed"]
  ELSE IF raw = <<>>
    THEN [status |-> 400, detail |-> "Enrollment number required"]
  ELSE IF sanitize_enrollment(raw) = <<>>
    THEN [status |-> 400, detail |-> "Invalid enrollment (allowed: letters, digits, underscore, hyphen)"]
  ELSE NoReject

\* The checks made before the body is read, in the order of the code.
EarlyCheck(raw, fname) ==
  IF raw = <<>>
    THEN [status |-> 400, detail |-> "Enrollment number required"]
  ELSE IF sanitize_enrollment(raw) = <<>>
    THEN [status |-> 400, detail |-> "Invalid enrollment (allowed: letters, digits, underscore, hyphen)"]
  ELSE IF Lower(fname) \notin ALLOWED_EXTS
    THEN [status |-> 400, detail |-> "Only PNG/JPG/JPEG allowed"]
  ELSE NoReject

\* A mutant of DirsBeforeMkdir: the student folder is made before the body
\* is validated.
DirsMkdirFirst(d, e) == d \cup {e}

\* The student folders on a path that raises before student_folder.mkdir.
DirsBeforeMkdir(d, e) == d

\* student_folder.mkdir(parents=True, exist_ok=True).
Mkdir(d, e) == d \cup {e}

\* A mutant of LoopFree: the steps after the body read are scheduled like
\* awaited calls, so another handler may run between them.
LoopAlwaysFree == TRUE

\* The event loop can start or resume a handler: no handler is between its
\* resumption after `await file.read()` and its response.
LoopFree == \A q \in Handlers : pc[q] \in {"idle", "read"}

InFlight == Cardinality({ q \in Handlers : pc[q] # "idle" })

(***************************************************************************)
(* The response of a handler (a return or a raised HTTPException), and the *)
(* history of each enrollment: the suffixes of its successful uploads, as  *)
(* long as no upload for it has failed.                                    *)
(***************************************************************************)
Respond(p, r, status, detail, name, url) ==
  /\ last' = [raw |-> r.raw, fname |-> r.fname, body |-> r.body, status |-> status,
              detail |-> detail, filename |-> name, url |-> url,
              enrollment |-> IF status = 200 THEN EnrollmentClean(r) ELSE <<>>]
  /\ nresp' = nresp + 1
  /\ pc' = [pc EXCEPT ![p] = "idle"]
  /\ req' = [req EXCEPT ![p] = NoReq]
  /\ image_count' = [image_count EXCEPT ![p] = 0]
  /\ hist' = IF EnrollmentClean(r) \notin Enrollments THEN hist
             ELSE IF status = 200 /\ hist[EnrollmentClean(r)].clean
               THEN [hist EXCEPT ![EnrollmentClean(r)].exts = Append(@, r.fname)]
             ELSE [hist EXCEPT ![EnrollmentClean(r)] = [clean |-> FALSE, exts |-> <<>>]]

(***************************************************************************)
(* upload_image, lines 301-312: the request arrives and the handler runs   *)
(* to `await file.read()`.  The body is not known to it before the read.   *)
(***************************************************************************)
Start(p) ==
  /\ UNCHANGED san
  /\ pc[p] = "idle"
  /\ LoopFree
  /\ nresp + InFlight < MaxRequests
  /\ \E raw \in RawEnrollments, fname \in Suffixes :
       LET r == [raw |-> raw, fname |-> fname, body |-> NoBody]
           rej == EarlyCheck(raw, fname)
       IN  \/ /\ rej.status # 0
              /\ Respond(p, r, rej.status, rej.detail, NoName, FALSE)
              /\ UNCHANGED store
           \/ /\ rej.status = 0
              /\ pc' = [pc EXCEPT ![p] = "read"]
              /\ req' = [req EXCEPT ![p] = r]
              /\ UNCHANGED <<store, image_count, last, nresp, hist>>

(***************************************************************************)
(* upload_image, lines 315-333: the handler resumes with the body that     *)
(* file.read() yields (or with the read's exception), checks its size,     *)
(* makes the folder, counts the images and picks the file name.            *)
(***************************************************************************)
ReadBody(p) ==
  /\ UNCHANGED san
  /\ pc[p] = "read"
  /\ LoopFree
  /\ \E body \in Bodies :
       LET r == [req[p] EXCEPT !.body = body]
           e == EnrollmentClean(r)
           n == count_images_in_folder(files[e])
       IN  \/ /\ ~body.readable
              /\ Respond(p, r, 500, "Failed to read uploaded file", NoName, FALSE)
              /\ dirs' = DirsBeforeMkdir(dirs, e)
              /\ UNCHANGED <<files, students, previews>>
           \/ /\ body.readable
              /\ TooLarge(body.size)
              /\ Respond(p, r, 400, "File too large (max 5MB)", NoName, FALSE)
              /\ dirs' = DirsBeforeMkdir(dirs, e)
              /\ UNCHANGED <<files, students, previews>>
           \/ /\ body.readable
              /\ ~TooLarge(body.size)
              /\ LimitReached(n)
              /\ Respond(p, r, 400, "Maximum 10 images per student", NoName, FALSE)
              /\ dirs' = Mkdir(dirs, e)
              /\ UNCHANGED <<files, students, previews>>
           \/ /\ body.readable
              /\ ~TooLarge(body.size)
              /\ ~LimitReached(n)
              /\ dirs' = Mkdir(dirs, e)
              /\ req' = [req EXCEPT ![p] = r]
              /\ image_count' = [image_count EXCEPT ![p] = n]
              /\ pc' = [pc EXCEPT ![p] = "write"]
              /\ UNCHANGED <<files, students, previews, last, nresp, hist>>

\* filename, from the locals image_count and ext.
Filename(p) == SeqName(image_count[p], Ext(req[p]))

(***************************************************************************)
(* upload_image, lines 335-340: the file is written.  open() may fail, and *)
(* f.write may fail after open() has created the file.                     *)
(***************************************************************************)
WriteStep(p) ==
  /\ UNCHANGED san
  /\ pc[p] = "write"
  /\ LET r == req[p]
         e == EnrollmentClean(r)
     IN  \/ /\ files' = [files EXCEPT ![e] = WriteFile(@, Filename(p), "body")]
            /\ pc' = [pc EXCEPT ![p] = "db"]
            /\ UNCHANGED <<dirs, students, previews, req, image_count, last, nresp, hist>>
         \/ /\ Respond(p, r, 500, "Failed to save file", NoName, FALSE)
            /\ UNCHANGED store
         \/ /\ files' = [files EXCEPT ![e] = WriteFile(@, Filename(p), "partial")]
            /\ Respond(p, r, 500, "Failed to save file", NoName, FALSE)
            /\ UNCHANGED <<dirs, students, previews>>

\* The file of that name becomes one stored by a successful upload.
MarkStored(folder, name) ==
  { IF f.name = name THEN [f EXCEPT !.stored = TRUE] ELSE f : f \in folder }

(***************************************************************************)
(* upload_image, lines 342-368: the students row is inserted if absent and *)
(* incremented in one transaction; on failure the transaction is rolled    *)
(* back and the file just written is unlinked (best effort).  Then the     *)
(* preview copy is made (best effort) and the response returned.           *)
(***************************************************************************)
UpdateDB(p) ==
  /\ UNCHANGED san
  /\ pc[p] = "db"
  /\ LET r == req[p]
         e == EnrollmentClean(r)
         name == Filename(p)
         tx == Increment(InsertOrIgnore(students, e), e)
     IN  \/ /\ students' = tx
            /\ files' = [files EXCEPT ![e] = MarkStored(@, name)]
            /\ previews' = previews + 1
            /\ Respond(p, r, 200, "", name, TRUE)
            /\ UNCHANGED dirs
         \/ /\ students' = tx
            /\ files' = [files EXCEPT ![e] = MarkStored(@, name)]
            /\ previews' \in {previews, previews + 1}
            /\ Respond(p, r, 200, "", name, FALSE)
            /\ UNCHANGED dirs
         \/ /\ students' = Rollback(students, tx)
            /\ files' = [files EXCEPT ![e] = Unlink(@, name)]
            /\ Respond(p, r, 500, "Database error", NoName, FALSE)
            /\ UNCHANGED <<dirs, previews>>
         \/ /\ students' = Rollback(students, tx)
            /\ Respond(p, r, 500, "Database error", NoName, FALSE)
            /\ UNCHANGED <<dirs, files, previews>>

(***************************************************************************)
(* The specification of the upload service.  The initial store is the one  *)
(* left by k earlier successful uploads of .jpg files for the enrollment   *)
(* AB1, each with its preview copy, with k one below the limit or at it;   *)
(* the enrollment X is fresh.                                              *)
(***************************************************************************)
Jpg == <<".", "j", "p", "g">>

InitialCounts == {MAX_IMAGES - 1, MAX_IMAGES}

SanIdle == san_in = <<>> /\ san_out = <<>> /\ san_again = <<>> /\ san_step = 0

Init ==
  /\ \E k \in InitialCounts :
       /\ dirs = IF k = 0 THEN {} ELSE {E1}
       /\ files = [e \in Enrollments |->
                    IF e = E1
                      THEN { [name |-> [stem |-> <<i \div 10, i % 10>>, ext |-> Jpg],
                              data |-> "body", stored |-> TRUE] : i \in 1..k }
                      ELSE {}]
       /\ students = [e \in (IF k = 0 THEN {} ELSE {E1}) |-> k]
       /\ previews = k
       /\ hist = [e \in Enrollments |->
                   [clean |-> TRUE,
                    exts |-> IF e = E1 THEN [i \in 1..k |-> Jpg] ELSE <<>>]]
  /\ pc = [p \in Handlers |-> "idle"]
  /\ req = [p \in Handlers |-> NoReq]
  /\ image_count = [p \in Handlers |-> 0]
  /\ last = NoResponse
  /\ nresp = 0
  /\ SanIdle

Next == \E p \in Handlers : Start(p) \/ ReadBody(p) \/ WriteStep(p) \/ UpdateDB(p)

Spec == Init /\ [][Next]_vars

(***************************************************************************)
(* The specification of the sanitizer alone: a raw string of at most       *)
(* MaxLen characters is sanitized, and the result is sanitized again.      *)
(***************************************************************************)
SanChars == {"a", "z", "Q", "7", "_", "-", " ", "/", ".", "*"}

SanInputs == UNION { [1..k -> SanChars] : k \in 0..MaxLen }

SanInit ==
  /\ san_in \in SanInputs
  /\ san_out = <<>>
  /\ san_again = <<>>
  /\ san_step = 0
  /\ dirs = {}
  /\ files = [e \in Enrollments |-> {}]
  /\ students = <<>>
  /\ previews = 0
  /\ hist = [e \in Enrollments |-> [clean |-> TRUE, exts |-> <<>>]]
  /\ pc = [p \in Handlers |-> "idle"]
  /\ req = [p \in Handlers |-> NoReq]
  /\ image_count = [p \in Handlers |-> 0]
  /\ last = NoResponse
  /\ nresp = 0

Sanitize ==
  /\ san_step = 0
  /\ san_out' = sanitize_enrollment(san_in)
  /\ san_step' = 1
  /\ UNCHANGED <<san_in, san_again, store, pc, req, image_count, last, nresp, hist>>

Resanitize ==
  /\ san_step = 1
  /\ san_again' = sanitize_enrollment(san_out)
  /\ san_step' = 2
  /\ UNCHANGED <<san_in, san_out, store, pc, req, image_count, last, nresp, hist>>

SanNext == Sanitize \/ Resanitize

SanSpec == SanInit /\ [][SanNext]_vars

(***************************************************************************)
(* Vocabulary of the properties.                                           *)
(***************************************************************************)
Midway == {"write", "db"}

\* No handler is between its count of the folder and its response.
NoneMidway == \A p \in Handlers : pc[p] \notin Midway

\* A response is sent in this step.
Responds == nresp' = nresp + 1

CountOf(e) == count_images_in_folder(files[e])
RowOf(t, e) == IF e \in DOMAIN t THEN t[e] ELSE 0
StoredIn(e) == { f \in files[e] : f.stored }
NamesIn(folder) == { f.name : f \in folder }

AllowedChars ==
  {"A","B","C","D","E","F","G","H","I","J","K","L","M","N","O","P","Q","R",
   "S","T","U","V","W","X","Y","Z","0","1","2","3","4","5","6","7","8","9",
   "_","-"}

RECURSIVE IsSubseq(_, _)
IsSubseq(s, t) ==
  IF s = <<>> THEN TRUE
  ELSE IF t = <<>> THEN FALSE
  ELSE IF Head(s) = Head(t) THEN IsSubseq(Tail(s), Tail(t))
  ELSE IsSubseq(s, Tail(t))

(***************************************************************************)
(* C1.  As claimed: whenever no handler is midway, every student record's  *)
(* image_count is at most 10 and equals the number of files with an        *)
(* allowed extension in that student's folder.                             *)
(***************************************************************************)
C1_CountEqualsFiles ==
  NoneMidway =>
    \A e \in DOMAIN students :
      students[e] <= MAX_IMAGES /\ students[e] = CountOf(e)

\* C1, amended: whenever no handler is midway, every enrollment's
\* image_count (0 without a record) is at most 10, equals the number of
\* files in its folder that a successful upload stored, and is at most the
\* number of files with an allowed extension in the folder, itself at most 10.
C1_CountEqualsStoredFiles ==
  NoneMidway =>
    \A e \in Enrollments :
      /\ RowOf(students, e) <= MAX_IMAGES
      /\ RowOf(students, e) = Cardinality(StoredIn(e))
      /\ RowOf(students, e) <= CountOf(e)
      /\ CountOf(e) <= MAX_IMAGES

\* C1, witness: a table update failed, the unlink of the file just written
\* failed too, and the folder, which holds complete files only, holds more
\* images than its student record counts.
C1_Witness ==
  /\ NoneMidway
  /\ last.status = 500
  /\ last.detail = "Database error"
  /\ \E e \in DOMAIN students :
       /\ e = sanitize_enrollment(last.raw)
       /\ CountOf(e) > students[e]
       /\ \A f \in files[e] : f.data = "body"

(***************************************************************************)
(* C2.  For an enrollment whose uploads so far all succeeded, N of them,   *)
(* the folder holds exactly the files named k in two digits plus the       *)
(* lower-cased suffix of the k-th upload, k = 1..N, and the student        *)
(* listing holds the enrollment with image_count = N.                      *)
(***************************************************************************)
C2_SequentialNames ==
  \A e \in Enrollments :
    (hist[e].clean /\ \A p \in Handlers : ~(pc[p] \in Midway /\ EnrollmentClean(req[p]) = e)) =>
      LET N == Len(hist[e].exts) IN
        /\ N <= MAX_IMAGES
        /\ NamesIn(files[e]) =
             { [stem |-> <<k \div 10, k % 10>>, ext |-> Lower(hist[e].exts[k])] : k \in 1..N }
        /\ Cardinality(files[e]) = N
        /\ \A f \in files[e] : f.data = "body"
        /\ N >= 1 => [enrollment |-> e, image_count |-> N] \in list_students

\* C2, witness: a fresh enrollment after two or more successful uploads of
\* different suffixes, one of them given in upper case.
C2_Witness ==
  \E e \in Enrollments :
    /\ hist[e].clean
    /\ NoneMidway
    /\ Len(hist[e].exts) >= 2
    /\ \E i, j \in DOMAIN hist[e].exts :
         /\ hist[e].exts[i] # Lower(hist[e].exts[i])
         /\ Lower(hist[e].exts[j]) # Lower(hist[e].exts[i])

(***************************************************************************)
(* C3.  A handler that resumes with a readable body of at most 5 MiB for   *)
(* an enrollment whose folder holds 10 or more images responds 400 "limit  *)
(* reached" in that step, and the step changes neither the files nor the   *)
(* students table.                                                         *)
(***************************************************************************)
C3_LimitRejects ==
  [][ \A p \in Handlers :
        LET body == IF pc'[p] = "write" THEN req'[p].body ELSE last'.body IN
          ( /\ pc[p] = "read"
            /\ pc'[p] # "read"
            /\ body.readable
            /\ body.size <= MAX_FILE_BYTES
            /\ CountOf(EnrollmentClean(req[p])) >= MAX_IMAGES )
          => /\ Responds
             /\ pc'[p] = "idle"
             /\ last'.status = 400
             /\ last'.detail = "Maximum 10 images per student"
             /\ files' = files
             /\ students' = students ]_vars

\* C3, witness: the limit-reached rejection was sent for a full folder.
C3_Witness ==
  /\ last.status = 400
  /\ last.detail = "Maximum 10 images per student"
  /\ last.body.readable
  /\ last.body.size <= MAX_FILE_BYTES
  /\ CountOf(sanitize_enrollment(last.raw)) = MAX_IMAGES

\* The first failing check of a request, in the order the upload contract
\* lists them: before the body read, and from the body read on.
ClaimedEarly(raw, fname) ==
  CASE raw = <<>> -> <<400, "Enrollment number required">>
    [] raw # <<>> /\ sanitize_enrollment(raw) = <<>>
         -> <<400, "Invalid enrollment (allowed: letters, digits, underscore, hyphen)">>
    [] sanitize_enrollment(raw) # <<>> /\ Lower(fname) \notin ALLOWED_EXTS
         -> <<400, "Only PNG/JPG/JPEG allowed">>
    [] OTHER -> <<0, "">>

ClaimedLate(body, n) ==
  CASE ~body.readable -> <<500, "Failed to read uploaded file">>
    [] body.readable /\ body.size > MAX_FILE_BYTES -> <<400, "File too large (max 5MB)">>
    [] body.readable /\ body.size <= MAX_FILE_BYTES /\ n >= MAX_IMAGES
         -> <<400, "Maximum 10 images per student">>
    [] OTHER -> <<0, "">>

(***************************************************************************)
(* C4.  The rejection reported is that of the first failing check in the   *)
(* order: enrollment missing (400), enrollment sanitizes to empty (400),   *)
(* extension not allowed, compared case-insensitively (400), body          *)
(* unreadable (500), body over 5 MiB (400), folder holds 10 or more (400). *)
(* A request that fails none of the first three reaches the body read, and *)
(* one that fails none of the six reaches the write.                       *)
(***************************************************************************)
C4_FirstFailingCheck ==
  [][ /\ (Responds /\ pc' = pc) =>
           /\ ClaimedEarly(last'.raw, last'.fname)[1] # 0
           /\ <<last'.status, last'.detail>> = ClaimedEarly(last'.raw, last'.fname)
      /\ \A p \in Handlers :
           (pc[p] = "idle" /\ pc'[p] = "read") =>
             ClaimedEarly(req'[p].raw, req'[p].fname)[1] = 0
      /\ \A p \in Handlers :
           (pc[p] = "read" /\ pc'[p] # "read") =>
             LET body == IF pc'[p] = "write" THEN req'[p].body ELSE last'.body
                 claimed == ClaimedLate(body, CountOf(EnrollmentClean(req[p])))
             IN  IF claimed[1] # 0
                   THEN /\ Responds
                        /\ pc'[p] = "idle"
                        /\ <<last'.status, last'.detail>> = claimed
                        /\ last'.raw = req[p].raw
                        /\ last'.fname = req[p].fname
                   ELSE pc'[p] = "write" /\ ~Responds ]_vars

\* C4, witness: a request with an unreadable body over 5 MiB for a full
\* folder was rejected for the unreadable body.
C4_Witness ==
  /\ last.status = 500
  /\ last.detail = "Failed to read uploaded file"
  /\ last.body.size > MAX_FILE_BYTES
  /\ CountOf(sanitize_enrollment(last.raw)) >= MAX_IMAGES

(***************************************************************************)
(* C5.  A step that reports success leaves the named file, complete, in    *)
(* the enrollment's folder and that enrollment's image_count one higher    *)
(* (from 0 without a record), other rows as they were; every other step,   *)
(* a reported failure included, leaves the students table unchanged; and   *)
(* a handler whose table update fails responds 500 "Database error" with   *)
(* the folder either without the file it had just written or unchanged.    *)
(***************************************************************************)
C5_NoPartialSuccess ==
  [][ /\ (Responds /\ last'.status = 200) =>
           LET e == last'.enrollment IN
             /\ e \in Enrollments
             /\ \E f \in files'[e] : f.name = last'.filename /\ f.data = "body"
             /\ DOMAIN students' = DOMAIN students \cup {e}
             /\ students'[e] = RowOf(students, e) + 1
             /\ \A x \in DOMAIN students : x # e => students'[x] = students[x]
      /\ ~(Responds /\ last'.status = 200) => students' = students
      /\ \A p \in Handlers :
           (pc[p] = "db" /\ pc'[p] = "idle" /\ last'.status # 200) =>
             LET e == EnrollmentClean(req[p]) IN
               /\ Responds
               /\ last'.status = 500
               /\ last'.detail = "Database error"
               /\ \/ files' = files
                  \/ /\ files' = [files EXCEPT ![e] = { f \in @ : f.name # Filename(p) }]
                     /\ files' # files ]_vars

\* C5, witness: the table update failed, and the file just written is gone:
\* every folder holds as many images as its record counts.
C5_Witness ==
  /\ last.status = 500
  /\ last.detail = "Database error"
  /\ NoneMidway
  /\ \A e \in Enrollments : CountOf(e) = RowOf(students, e)
  /\ RowOf(students, sanitize_enrollment(last.raw)) >= 1

(***************************************************************************)
(* C6.  The sanitizer's result holds only characters of [A-Z0-9_-], is the *)
(* upper-cased input with characters removed and none replaced, and        *)
(* sanitizing it again returns it unchanged.                               *)
(***************************************************************************)
C6_SanitizerCharsetIdempotent ==
  /\ san_step >= 1 =>
       /\ Range(san_out) \subseteq AllowedChars
       /\ IsSubseq(san_out, Upper(san_in))
       /\ Len(san_out) =
            Cardinality({ i \in DOMAIN san_in : UpperChar(san_in[i]) \in AllowedChars })
  /\ san_step = 2 => san_again = san_out

\* C6, witness: an input with a lower-case letter and a character that is
\* removed, sanitized to a non-empty value and sanitized again.
C6_Witness ==
  /\ san_step = 2
  /\ san_out # <<>>
  /\ Len(san_out) < Len(san_in)
  /\ \E i \in DOMAIN san_in : UpperChar(san_in[i]) # san_in[i]

(***************************************************************************)
(* C7.  As claimed: while one handler is between its count of the folder   *)
(* and its update of the counter, another handler waiting with the same    *)
(* enrollment can run its own count of the folder.                         *)
(***************************************************************************)
C7_StepsInterleave ==
  \A p, q \in Handlers :
    ( /\ p # q
      /\ pc[p] \in Midway
      /\ pc[q] = "read"
      /\ EnrollmentClean(req[p]) = EnrollmentClean(req[q]) )
    => ENABLED ReadBody(q)

\* C7, amended: at most one handler at a time is between its count of the
\* folder and its response, and the count it holds is never stale: it is
\* the folder's count before its own write, so no two handlers choose a
\* sequence number from the same observed count.
C7_CountToUpdateIsAtomic ==
  /\ \A p, q \in Handlers : (pc[p] \in Midway /\ pc[q] \in Midway) => p = q
  /\ \A p \in Handlers :
       /\ pc[p] = "write" => image_count[p] = CountOf(EnrollmentClean(req[p]))
       /\ pc[p] = "db" => image_count[p] + 1 = CountOf(EnrollmentClean(req[p]))

\* C7, witness: one handler has written its file and not yet updated the
\* counter while another waits for its body with the same enrollment.
C7_Witness ==
  \E p, q \in Handlers :
    /\ p # q
    /\ pc[p] = "db"
    /\ pc[q] = "read"
    /\ EnrollmentClean(req[p]) = EnrollmentClean(req[q])

(***************************************************************************)
(* C8.  No step overwrites or deletes a file that a successful upload      *)
(* stored, and a step that deletes a file is the response "Database error" *)
(* of the handler that had just written that file.                         *)
(***************************************************************************)
C8_StoredFilesAreKept ==
  [][ \A e \in Enrollments : \A f \in files[e] :
        /\ f.stored => f \in files'[e]
        /\ f.name \notin NamesIn(files'[e]) =>
             /\ ~f.stored
             /\ Responds
             /\ last'.detail = "Database error"
             /\ \E p \in Handlers :
                  /\ pc[p] = "db"
                  /\ pc'[p] = "idle"
                  /\ EnrollmentClean(req[p]) = e
                  /\ Filename(p) = f.name ]_vars

\* C8, witness: an upload's table update failed and its file was deleted
\* in a folder that holds stored files.
C8_Witness ==
  /\ last.detail = "Database error"
  /\ NoneMidway
  /\ LET e == sanitize_enrollment(last.raw) IN
       /\ StoredIn(e) # {}
       /\ StoredIn(e) = files[e]

(***************************************************************************)
(* C9.  As claimed: a handler whose file write fails responds 500 "save    *)
(* failure", and that step changes neither the files nor the students      *)
(* table.                                                                  *)
(***************************************************************************)
C9_WriteFailurePersistsNothing ==
  [][ \A p \in Handlers :
        (pc[p] = "write" /\ pc'[p] = "idle") =>
          /\ Responds
          /\ last'.status = 500
          /\ last'.detail = "Failed to save file"
          /\ files' = files
          /\ students' = students ]_vars

(***************************************************************************)
(* C10.  A step that sends one of the five rejections that precede the     *)
(* folder's creation changes no folder, file, student record or preview.   *)
(***************************************************************************)
C10_EarlyRejectionChangesNothing ==
  [][ ( /\ Responds
        /\ last'.detail \in
             { "Enrollment number required",
               "Invalid enrollment (allowed: letters, digits, underscore, hyphen)",
               "Only PNG/JPG/JPEG allowed",
               "Failed to read uploaded file",
               "File too large (max 5MB)" } )
      => /\ dirs' = dirs
         /\ files' = files
         /\ students' = students
         /\ previews' = previews ]_vars

\* C10, witness: a body over 5 MiB was rejected for an enrollment that has
\* no folder.
C10_Witness ==
  /\ last.detail = "File too large (max 5MB)"
  /\ sanitize_enrollment(last.raw) \notin dirs
  /\ sanitize_enrollment(last.raw) # <<>>

====
